---- MODULE Spec2Model ----
(***************************************************************************)
(* Model of the task scheduling / execution supervisor of owl-workshop:    *)
(*   backend/services/task_service.py  (TaskService)                       *)
(*   backend/services/gpu_service.py   (GPUService)                        *)
(*   backend/api/task_routes.py        (HTTP create/cancel/retry/delete)   *)
(*   backend/api/gpu_routes.py         (HTTP administration of servers)    *)
(*                                                                         *)
(* The durable store is the 'tasks' table; the in-memory active set is     *)
(* TaskService._running_tasks.  Coroutines run on one asyncio event loop:  *)
(* a coroutine runs without interruption between two real suspension       *)
(* points.  The store client is synchronous, so the only suspension points *)
(* are `await execution_task` (_schedule_task), `await asyncio.sleep`      *)
(* (the _execute_*_task loops, schedule_maintenance) and `await            *)
(* asyncio.gather` (monitor_all_servers).  Callbacks queued with call_soon *)
(* (a fresh task's first step, the wake-up of an awaiter, the delivery of  *)
(* a cancellation) and the handles of the timers that are due run in FIFO  *)
(* order: the `ready` queue.  A sleep ends in two callbacks: the handle of *)
(* its timer sets the result of the sleep's future, which queues the       *)
(* wake-up of the sleeping task.  Timers and API calls arrive at arbitrary *)
(* points between two callbacks.  asyncio.CancelledError is a              *)
(* BaseException (Python >= 3.8): `except Exception` does not catch it.    *)
(***************************************************************************)
EXTENDS Integers, Sequences, FiniteSets, TLC

\* ---- bounds of the model ------------------------------------------------
\* the ids of the 'tasks' table; only the burst of submissions uses them all
MaxJobs == 6
\* the jobs submitted elsewhere
NumJobs == 2
MaxUnits == 6
NumServers == 2
\* total_steps / total_batches / total_files of the three routines, scaled down
TrainingSteps == 3
InferenceSteps == 1
DataSteps == 1
\* gpu_count of the registered servers, and of the servers the burst runs on
GpuCount == 1
BurstGpuCount == 3
\* the count of progress writes after a cancellation stops here
LateCap == 2
\* the ping_server tasks of monitor_all_servers that may be queued at a time (two
\* passes over two servers)
MaxPingTasks == 4
\* the schedule_maintenance calls that may be asleep for one server at a time
MaxSleepers == 2

\* ---- program constants ---------------------------------------------------
FullProgress == 100
\* the limit of concurrently running jobs of one user in the create_task route;
\* every job of the model belongs to the same user
MaxConcurrentPerUser == 5

JobIds == 1 .. MaxJobs
SubmitIds == 1 .. NumJobs
UnitIds == 1 .. MaxUnits
ServerIds == 1 .. NumServers

KnownTypes == {"training", "inference", "data_processing"}
TaskTypes == KnownTypes \cup {"other"}
\* the job types submitted in the model: a routine of several steps, an unknown type
InputTypes == {"training", "other"}
\* the balances of the user who calls the create_task route
Balances == {0, 1}
Terminal == {"completed", "failed", "cancelled"}
UnsupportedMsg == "unsupported task type"

VARIABLES
    tasks,      \* the 'tasks' table: job id -> row (status "absent": no row)
    servers,    \* the 'gpu_servers' table: server id -> row
    running,    \* TaskService._running_tasks, a dict in insertion order
    units,      \* the live _schedule_task coroutines, each with its execution task
    ready,      \* the event loop's FIFO queue of callbacks
    ret,        \* what the last API call returned
    creq,       \* jobs cancelled while Running and not retried since (history)
    late,       \* job id -> progress writes made since that cancellation (history)
    maint,      \* per server id, the schedule_maintenance coroutines that are asleep
    issued      \* the number of task ids generated so far (uuid4: none is reused)

vars == <<tasks, servers, running, units, ready, ret, creq, late, maint, issued>>

\* ---- rows ------------------------------------------------------------------
NoRow ==
    [status |-> "absent", task_type |-> "none", progress |-> 0,
     gpu_server_id |-> 0, started_at |-> FALSE, completed_at |-> FALSE,
     error_message |-> "", result |-> ""]

\* the row create_task inserts
NewRow(type) ==
    [status |-> "pending", task_type |-> type, progress |-> 0,
     gpu_server_id |-> 0, started_at |-> FALSE, completed_at |-> FALSE,
     error_message |-> "", result |-> ""]

\* a row of 'gpu_servers'.  `reachable` is not a column: it is what an SSH round
\* trip to the server (_test_ssh_connection) would answer.  A new row has the
\* status offline; last_ping and updated_at say whether the column holds a
\* timestamp written in the behaviour (the rows of the initial registry hold older
\* ones).
ServerRow(active, reach) ==
    [exists |-> TRUE, is_active |-> active, gpu_count |-> GpuCount,
     reachable |-> reach, status |-> "offline", last_ping |-> FALSE,
     updated_at |-> FALSE]

\* no row under this id: never inserted (status "none") or deleted ("deleted")
NoServerRow ==
    [exists |-> FALSE, is_active |-> FALSE, gpu_count |-> 0,
     reachable |-> FALSE, status |-> "none", last_ping |-> FALSE,
     updated_at |-> FALSE]

DeletedServerRow == [NoServerRow EXCEPT !.status = "deleted"]

\* a _schedule_task coroutine: the Task object it was given (job, task_type), its
\* own position (spc), the position of its execution task (epc)
NoUnit ==
    [job |-> 0, task_type |-> "none", spc |-> "none", epc |-> "none",
     must_cancel |-> FALSE, step |-> 0, outcome |-> "none"]

\* `ret` observes the API: the result of the last call, NoRet after a step of a
\* coroutine.  RetOff switches the observation off for the whole behaviour.
NoRet == [op |-> "none", job |-> 0, val |-> "none"]
RetOff == [op |-> "off", job |-> 0, val |-> "none"]
Record(r) == IF ret = RetOff THEN RetOff ELSE r

\* ---- the dict _running_tasks -------------------------------------------------
InRunning(r, j) == \E i \in 1 .. Len(r) : r[i].job = j

RunningUnit(r, j) ==
    LET i == CHOOSE i \in 1 .. Len(r) : r[i].job = j IN r[i].unit

\* mutant: the whole dict is cleared
DelRunningAll(r, j) == <<>>

\* del self._running_tasks[j]
DelRunning(r, j) == SelectSeq(r, LAMBDA e : e.job # j)

\* self._running_tasks[j] = execution_task  (an existing key keeps its place)
SetRunning(r, j, u) ==
    IF InRunning(r, j)
    THEN [i \in 1 .. Len(r) |-> IF r[i].job = j THEN [job |-> j, unit |-> u] ELSE r[i]]
    ELSE Append(r, [job |-> j, unit |-> u])

\* ---- the store writes --------------------------------------------------------
\* _update_task_status: update(status + extra).eq('id', task_id); no row, no effect
UpdateTaskStatus(ts, j, st, extra) ==
    IF ts[j].status = "absent" THEN ts
    ELSE [ts EXCEPT ![j] = extra @@ [status |-> st] @@ ts[j]]

\* _update_task_progress: update(progress).eq('id', task_id)
UpdateTaskProgress(ts, j, p) ==
    IF ts[j].status = "absent" THEN ts
    ELSE [ts EXCEPT ![j].progress = p]

\* ---- allocation ----------------------------------------------------------------
\* the rows select('id').eq('gpu_server_id', s).eq('status', 'running') returns
RunningOn(ts, s) ==
    {j \in JobIds : ts[j].status = "running" /\ ts[j].gpu_server_id = s}

\* the servers select('*').eq('is_active', True) matches
ActiveServers == {s \in ServerIds : servers[s].exists /\ servers[s].is_active}

\* the orders in which the store may return the rows of gpu_servers: the selects
\* have no order clause
RowOrders ==
    {o \in [1 .. NumServers -> ServerIds] :
        \A a, b \in 1 .. NumServers : a # b => o[a] # o[b]}

\* result.data of select('*').eq('is_active', True), the store returning the rows
\* in the given order
ActiveRows(order) ==
    LET IsActive(s) == s \in ActiveServers
    IN SelectSeq(order, IsActive)

\* mutant: a server at capacity is still available
CheckServerAvailabilityAtCapacity(ts, s) ==
    Cardinality(RunningOn(ts, s)) <= servers[s].gpu_count

\* _check_server_availability: running rows on the server < gpu_count
CheckServerAvailability(ts, s) ==
    Cardinality(RunningOn(ts, s)) < servers[s].gpu_count

\* mutant: the occupancy of the server is not checked
FindAvailableServerAnyActive(ts, order) ==
    IF ActiveRows(order) = <<>> THEN 0 ELSE ActiveRows(order)[1]

\* find_available_server: the first row of the select, in the order the store
\* returned them, whose server is available; 0 for None
FindAvailableServer(ts, order) ==
    LET IsAvailable(s) == CheckServerAvailability(ts, s)
        ok == SelectSeq(ActiveRows(order), IsAvailable)
    IN IF ok = <<>> THEN 0 ELSE ok[1]

\* ---- the execution routines ------------------------------------------------------
TotalSteps(type) ==
    CASE type = "training" -> TrainingSteps
      [] type = "inference" -> InferenceSteps
      [] type = "data_processing" -> DataSteps
      [] OTHER -> 0

\* mutant: the progress counts the steps that remain
ProgressAfterRemaining(step, total) == ((total - step) * FullProgress) \div total

\* progress = (step + 1) / total * 100
ProgressAfter(step, total) == ((step + 1) * FullProgress) \div total

FreeUnits == {u \in UnitIds : units[u].spc = "none"}
NewUnit == CHOOSE u \in FreeUnits : \A v \in FreeUnits : u <= v

\* mutant: the scheduling coroutine is run at once, up to its await
SpawnAwaiting(us, u, j, type) ==
    [us EXCEPT ![u] = [NoUnit EXCEPT !.job = j, !.task_type = type, !.spc = "await"]]

\* asyncio.create_task(self._schedule_task(task))
Spawn(us, u, j, type) ==
    [us EXCEPT ![u] = [NoUnit EXCEPT !.job = j, !.task_type = type, !.spc = "ready"]]

\* an id that no row of 'gpu_servers' has, now or later
NoSuchServer == NumServers + 1
\* the ids ping_server and schedule_maintenance are called with
PingTargets == ServerIds \cup {NoSuchServer}

\* the state after construction, over a registry of servers
InitState(registry, observed) ==
    /\ tasks = [j \in JobIds |-> NoRow]
    /\ servers = registry
    /\ running = <<>>
    /\ units = [u \in UnitIds |-> NoUnit]
    /\ ready = <<>>
    /\ ret = observed
    /\ creq = {}
    /\ late = [j \in JobIds |-> 0]
    /\ maint = [s \in PingTargets |-> 0]
    /\ issued = 0

\* server 1 active, server 2 registered and not active, both reachable
Init == InitState([s \in ServerIds |-> ServerRow(s = 1, TRUE)], RetOff)

\* ---- TaskService.create_task ---------------------------------------------------
\* cap: the number of jobs submitted in the behaviour
CreateTask(type, cap) ==
    /\ issued < cap
    /\ FreeUnits # {}
    /\ tasks' = [tasks EXCEPT ![issued + 1] = NewRow(type)]
    /\ units' = Spawn(units, NewUnit, issued + 1, type)
    /\ ready' = Append(ready, <<"S", NewUnit>>)
    /\ issued' = issued + 1
    /\ ret' = Record(NoRet)
    /\ UNCHANGED <<servers, maint, running, creq, late>>

\* mutant: the running write does not store the server
RunningWriteNoServer(ts, j, s) ==
    UpdateTaskStatus(ts, j, "running", [started_at |-> TRUE])

\* the write of _schedule_task before the execution task is created
RunningWrite(ts, j, s) ==
    UpdateTaskStatus(ts, j, "running", [gpu_server_id |-> s, started_at |-> TRUE])

\* ---- _schedule_task, up to `await execution_task` -------------------------------
\* No real suspension point lies between the allocation, the running write, the
\* creation of the execution task and its registration.
SchedStart(u) ==
    /\ ready # <<>>
    /\ Head(ready) = <<"S", u>>
    /\ units[u].spc = "ready"
    /\ \E order \in RowOrders :
          LET j == units[u].job
              s == FindAvailableServer(tasks, order)
          IN IF s = 0
             THEN \* return; finally: del self._running_tasks[task.id] if present
                  /\ running' = DelRunning(running, j)
                  /\ units' = [units EXCEPT ![u] = NoUnit]
                  /\ ready' = Tail(ready)
                  /\ UNCHANGED tasks
             ELSE /\ tasks' = RunningWrite(tasks, j, s)
                  /\ units' = [units EXCEPT ![u].spc = "await", ![u].epc = "ready"]
                  /\ running' = SetRunning(running, j, u)
                  /\ ready' = Append(Tail(ready), <<"E", u>>)
    /\ ret' = Record(NoRet)
    /\ UNCHANGED <<servers, maint, creq, late, issued>>

\* _schedule_task when the store raises on the running write: _update_task_status
\* catches the exception and logs it, and _schedule_task goes on
SchedStartWriteFails(u) ==
    /\ ready # <<>>
    /\ Head(ready) = <<"S", u>>
    /\ units[u].spc = "ready"
    /\ \E order \in RowOrders : FindAvailableServer(tasks, order) # 0
    /\ units' = [units EXCEPT ![u].spc = "await", ![u].epc = "ready"]
    /\ running' = SetRunning(running, units[u].job, u)
    /\ ready' = Append(Tail(ready), <<"E", u>>)
    /\ ret' = Record(NoRet)
    /\ UNCHANGED <<tasks, servers, maint, creq, late, issued>>

\* the execution task ends: its awaiter (_schedule_task) is woken with call_soon
EndExec(us, u, out) ==
    [us EXCEPT ![u].epc = "done", ![u].outcome = out, ![u].spc = "wake"]

\* mutant: the failed write of _execute_task is missing
ExecRaisesNoWrite(ts, j, exc) == ts

\* `except Exception` of _execute_task: an Exception is written as failed and
\* re-raised; CancelledError passes through
ExecRaises(ts, j, exc) ==
    IF exc = "exc"
    THEN UpdateTaskStatus(ts, j, "failed",
             [error_message |-> UnsupportedMsg, completed_at |-> TRUE])
    ELSE ts

\* mutant: the check is inverted
CancelCheckInverted(r, j) == InRunning(r, j)

\* the check at the top of every iteration of an _execute_*_task loop
CancelCheck(r, j) == ~InRunning(r, j)

\* ---- _execute_task, first step: up to the first asyncio.sleep ---------------------
\* the routine is chosen by the task_type of the Task object _schedule_task was given
ExecStart(u) ==
    /\ ready # <<>>
    /\ Head(ready) = <<"E", u>>
    /\ units[u].epc = "ready"
    /\ LET j == units[u].job
           type == units[u].task_type
       IN IF units[u].must_cancel
          THEN \* cancelled before its first step: the body never runs
               /\ units' = EndExec(units, u, "cancelled")
               /\ ready' = Append(Tail(ready), <<"S", u>>)
               /\ UNCHANGED tasks
          ELSE IF type \notin KnownTypes
          THEN /\ tasks' = ExecRaises(tasks, j, "exc")
               /\ units' = EndExec(units, u, "exc")
               /\ ready' = Append(Tail(ready), <<"S", u>>)
          ELSE IF CancelCheck(running, j)
          THEN /\ tasks' = ExecRaises(tasks, j, "cancelled")
               /\ units' = EndExec(units, u, "cancelled")
               /\ ready' = Append(Tail(ready), <<"S", u>>)
          ELSE /\ units' = [units EXCEPT ![u].epc = "sleep"]
               /\ ready' = Tail(ready)
               /\ UNCHANGED tasks
    /\ ret' = Record(NoRet)
    /\ UNCHANGED <<servers, maint, running, creq, late, issued>>

\* ---- asyncio.sleep: the timer is due, its handle joins the queue -------------------
TimerFire(u) ==
    /\ units[u].epc = "sleep"
    /\ units' = [units EXCEPT ![u].epc = "timer"]
    /\ ready' = Append(ready, <<"T", u>>)
    /\ ret' = Record(NoRet)
    /\ UNCHANGED <<tasks, servers, maint, running, creq, late, issued>>

\* the handle runs: it sets the result of the sleep's future, which queues the
\* wake-up of the execution task; it does nothing if the future was cancelled
TimerRun(u) ==
    /\ ready # <<>>
    /\ Head(ready) = <<"T", u>>
    /\ IF units[u].epc = "timer"
       THEN /\ units' = [units EXCEPT ![u].epc = "woken"]
            /\ ready' = Append(Tail(ready), <<"E", u>>)
       ELSE /\ ready' = Tail(ready)
            /\ UNCHANGED units
    /\ ret' = Record(NoRet)
    /\ UNCHANGED <<tasks, servers, maint, running, creq, late, issued>>

\* mutant: the completed write resets the progress
CompletedWriteResetsProgress(ts, j) ==
    UpdateTaskStatus(ts, j, "completed", [progress |-> 0, completed_at |-> TRUE])

\* the write of _execute_task after the routine has returned
CompletedWrite(ts, j) ==
    UpdateTaskStatus(ts, j, "completed",
        [progress |-> FullProgress, completed_at |-> TRUE])

\* ---- an execution task resumes from asyncio.sleep -----------------------------------
\* progress write; then either the loop ends and completed is written, or the
\* next iteration checks for cancellation and sleeps again
ExecWake(u) ==
    /\ ready # <<>>
    /\ Head(ready) = <<"E", u>>
    /\ units[u].epc = "woken"
    /\ LET j == units[u].job
           total == TotalSteps(units[u].task_type)
           n == units[u].step
           ts1 == UpdateTaskProgress(tasks, j, ProgressAfter(n, total))
       IN IF n + 1 >= total
          THEN /\ tasks' = CompletedWrite(ts1, j)
               /\ units' = EndExec(units, u, "ok")
               /\ ready' = Append(Tail(ready), <<"S", u>>)
          ELSE IF CancelCheck(running, j)
          THEN /\ tasks' = ExecRaises(ts1, j, "cancelled")
               /\ units' = EndExec(units, u, "cancelled")
               /\ ready' = Append(Tail(ready), <<"S", u>>)
          ELSE /\ tasks' = ts1
               /\ units' = [units EXCEPT ![u].step = n + 1, ![u].epc = "sleep"]
               /\ ready' = Tail(ready)
    /\ ret' = Record(NoRet)
    /\ late' = IF units[u].job \in creq /\ late[units[u].job] < LateCap
               THEN [late EXCEPT ![units[u].job] = @ + 1] ELSE late
    /\ UNCHANGED <<servers, maint, running, creq, issued>>

\* ---- CancelledError is delivered into the execution task at its sleep --------------
ExecCancelled(u) ==
    /\ ready # <<>>
    /\ Head(ready) = <<"E", u>>
    /\ units[u].epc = "cancelling"
    /\ tasks' = ExecRaises(tasks, units[u].job, "cancelled")
    /\ units' = EndExec(units, u, "cancelled")
    /\ ready' = Append(Tail(ready), <<"S", u>>)
    /\ ret' = Record(NoRet)
    /\ UNCHANGED <<servers, maint, running, creq, late, issued>>

\* mutant: _schedule_task records a message of its own
SchedulerFailedWriteOwnMessage(ts, j) ==
    UpdateTaskStatus(ts, j, "failed",
        [error_message |-> "scheduling failed", completed_at |-> TRUE])

\* the failed write of `except Exception` in _schedule_task: str(e) of the
\* exception that _execute_task re-raised
SchedulerFailedWrite(ts, j) ==
    UpdateTaskStatus(ts, j, "failed",
        [error_message |-> UnsupportedMsg, completed_at |-> TRUE])

\* ---- _schedule_task after `await execution_task` ------------------------------------
\* except CancelledError: log.  except Exception: write failed.  finally: del.
SchedFinish(u) ==
    /\ ready # <<>>
    /\ Head(ready) = <<"S", u>>
    /\ units[u].spc = "wake"
    /\ LET j == units[u].job
       IN /\ tasks' = IF units[u].outcome = "exc"
                      THEN SchedulerFailedWrite(tasks, j)
                      ELSE tasks
          /\ running' = DelRunning(running, j)
    /\ units' = [units EXCEPT ![u] = NoUnit]
    /\ ready' = Tail(ready)
    /\ ret' = Record(NoRet)
    /\ UNCHANGED <<servers, maint, creq, late, issued>>

\* ---- asyncio.Task.cancel() on a unit's execution task --------------------------------
\* not started: the cancellation waits for the first step.  Asleep with the
\* sleep's future pending (timer not due, or its handle still queued): the future
\* is cancelled.  Asleep with the future done (wake-up queued): the cancellation
\* is delivered by that wake-up.
CancelUnit(rec) ==
    CASE rec.epc = "ready" -> [rec EXCEPT !.must_cancel = TRUE]
      [] rec.epc \in {"sleep", "timer", "woken"} -> [rec EXCEPT !.epc = "cancelling"]
      [] OTHER -> rec

\* cancelling a pending future queues the task's wake-up; a done future has
\* queued it already
CancelQueue(us, u) ==
    IF us[u].epc \in {"sleep", "timer"} THEN <<<<"E", u>>>> ELSE <<>>

\* ---- TaskService.cancel_task ------------------------------------------------------------
\* mutant: the check of the terminal states (task_service.py:140) is missing
CancelTaskReturnNoTerminalCheck(row) ==
    IF row.status = "absent" THEN "false" ELSE "true"

\* The caller's user_id is None or the owner's: get_task finds the row if there is
\* one.  One atomic step: the method holds no real suspension point.
CancelTaskReturn(row) ==
    IF row.status = "absent" THEN "false"
    ELSE IF row.status \in Terminal THEN "false"
    ELSE "true"

\* mutant: the cancelled write is lost
CancelWriteLost(ts, j) == ts

\* update({'status': 'cancelled', 'updated_at': ...}).eq('id', task_id)
CancelWrite(ts, j) == [ts EXCEPT ![j].status = "cancelled"]

CancelTask(j) ==
    /\ IF CancelTaskReturn(tasks[j]) = "false"
       THEN UNCHANGED <<tasks, running, units, ready>>
       ELSE /\ IF InRunning(running, j)
               THEN LET u == RunningUnit(running, j)
                    IN /\ units' = [units EXCEPT ![u] = CancelUnit(units[u])]
                       /\ ready' = ready \o CancelQueue(units, u)
                       /\ running' = DelRunning(running, j)
               ELSE UNCHANGED <<running, units, ready>>
            /\ tasks' = CancelWrite(tasks, j)
    /\ creq' = IF tasks[j].status = "running" THEN creq \cup {j} ELSE creq
    /\ ret' = Record([op |-> "cancel", job |-> j, val |-> CancelTaskReturn(tasks[j])])
    /\ UNCHANGED <<servers, maint, late, issued>>

\* ---- TaskService.stop_all_tasks -----------------------------------------------------------
\* the entries of the dict whose cancel() queues a wake-up, in the order of the dict
StopQueue(r, us) ==
    LET hit == SelectSeq(r, LAMBDA e : CancelQueue(us, e.unit) # <<>>)
    IN [i \in 1 .. Len(hit) |-> <<"E", hit[i].unit>>]

StopAllTasks ==
    /\ running # <<>>
    /\ units' = [u \in UnitIds |->
                    IF \E i \in 1 .. Len(running) : running[i].unit = u
                    THEN CancelUnit(units[u]) ELSE units[u]]
    /\ ready' = ready \o StopQueue(running, units)
    /\ running' = <<>>
    /\ ret' = Record(NoRet)
    /\ UNCHANGED <<tasks, servers, maint, creq, late, issued>>

\* ---- TaskService.delete_task ----------------------------------------------------------------
\* False for no row, an exception for a running job, True after the delete
DeleteTaskReturn(row) ==
    IF row.status = "absent" THEN "false"
    ELSE IF row.status = "running" THEN "raise"
    ELSE "true"

\* delete().eq('id', task_id)
DeleteRow(ts, j) == [ts EXCEPT ![j] = NoRow]

DeleteTask(j) ==
    /\ tasks' = IF DeleteTaskReturn(tasks[j]) = "true" THEN DeleteRow(tasks, j) ELSE tasks
    /\ creq' = IF DeleteTaskReturn(tasks[j]) = "true" THEN creq \ {j} ELSE creq
    /\ ret' = Record([op |-> "delete", job |-> j, val |-> DeleteTaskReturn(tasks[j])])
    /\ UNCHANGED <<servers, maint, running, units, ready, late, issued>>

\* ---- task_routes.create_task -----------------------------------------------------------------
\* 400 for a user whose balance is set and not positive, 429 at the limit of
\* running jobs; the route inserts the row and schedules nothing
RouteCreateReturn(ts, hasBalance, balance) ==
    IF hasBalance /\ balance <= 0 THEN "400"
    ELSE IF Cardinality({k \in JobIds : ts[k].status = "running"}) >= MaxConcurrentPerUser
    THEN "429"
    ELSE "ok"

RouteCreateTask(type, cap, hasBalance, balance) ==
    /\ issued < cap
    /\ IF RouteCreateReturn(tasks, hasBalance, balance) = "ok"
       THEN /\ tasks' = [tasks EXCEPT ![issued + 1] = NewRow(type)]
            /\ issued' = issued + 1
       ELSE UNCHANGED <<tasks, issued>>
    /\ ret' = Record([op |-> "route_create", job |-> 0,
                      val |-> RouteCreateReturn(tasks, hasBalance, balance)])
    /\ UNCHANGED <<servers, maint, running, units, ready, creq, late>>

\* ---- task_routes.cancel_task -------------------------------------------------------------------
\* mutant: the route's check of the terminal states is missing
RouteCancelReturnNoTerminalCheck(row) ==
    IF row.status = "absent" THEN "404" ELSE "ok"

RouteCancelReturn(row) ==
    IF row.status = "absent" THEN "404"
    ELSE IF row.status \in Terminal THEN "400"
    ELSE "ok"

RouteCancelTask(j) ==
    /\ tasks' = IF RouteCancelReturn(tasks[j]) = "ok"
                THEN CancelWrite(tasks, j) ELSE tasks
    /\ creq' = IF tasks[j].status = "running" THEN creq \cup {j} ELSE creq
    /\ ret' = Record([op |-> "route_cancel", job |-> j, val |-> RouteCancelReturn(tasks[j])])
    /\ UNCHANGED <<servers, maint, running, units, ready, late, issued>>

\* ---- task_routes.retry_task ----------------------------------------------------------------------
\* mutant: every terminal status may be retried
RetryAllowedAnyTerminal(st) == st \in Terminal

RetryAllowed(st) == st \in {"failed", "cancelled"}

RouteRetryReturn(row) ==
    IF row.status = "absent" THEN "404"
    ELSE IF ~RetryAllowed(row.status) THEN "400"
    ELSE "ok"

\* update_data of retry_task: gpu_server_id is not among the fields
RetryUpdate(row) ==
    [status |-> "pending", progress |-> 0, error_message |-> "", result |-> "",
     started_at |-> FALSE, completed_at |-> FALSE] @@ row

\* the route writes the row and schedules nothing
RouteRetryTask(j) ==
    /\ tasks' = IF RouteRetryReturn(tasks[j]) = "ok"
                THEN [tasks EXCEPT ![j] = RetryUpdate(tasks[j])] ELSE tasks
    /\ creq' = IF RouteRetryReturn(tasks[j]) = "ok" THEN creq \ {j} ELSE creq
    /\ late' = IF RouteRetryReturn(tasks[j]) = "ok" THEN [late EXCEPT ![j] = 0] ELSE late
    /\ ret' = Record([op |-> "retry", job |-> j, val |-> RouteRetryReturn(tasks[j])])
    /\ UNCHANGED <<servers, maint, running, units, ready, issued>>

\* ---- task_routes.delete_task ---------------------------------------------------------------------
RouteDeleteReturn(row) ==
    IF row.status = "absent" THEN "404"
    ELSE IF row.status = "running" THEN "400"
    ELSE "ok"

RouteDeleteTask(j) ==
    /\ tasks' = IF RouteDeleteReturn(tasks[j]) = "ok" THEN DeleteRow(tasks, j) ELSE tasks
    /\ creq' = IF RouteDeleteReturn(tasks[j]) = "ok" THEN creq \ {j} ELSE creq
    /\ ret' = Record([op |-> "route_delete", job |-> j, val |-> RouteDeleteReturn(tasks[j])])
    /\ UNCHANGED <<servers, maint, running, units, ready, late, issued>>

\* the callbacks of the event loop that belong to TaskService
LoopStep ==
    \/ \E u \in UnitIds : SchedStart(u)
    \/ \E u \in UnitIds : ExecStart(u)
    \/ \E u \in UnitIds : TimerFire(u)
    \/ \E u \in UnitIds : TimerRun(u)
    \/ \E u \in UnitIds : ExecWake(u)
    \/ \E u \in UnitIds : ExecCancelled(u)
    \/ \E u \in UnitIds : SchedFinish(u)

Next ==
    \/ \E type \in InputTypes : CreateTask(type, NumJobs)
    \/ LoopStep
    \/ \E j \in SubmitIds : CancelTask(j)
    \/ StopAllTasks
    \/ \E j \in SubmitIds : DeleteTask(j)
    \/ \E type \in InputTypes : \E hasBalance \in BOOLEAN : \E balance \in Balances :
           RouteCreateTask(type, NumJobs, hasBalance, balance)
    \/ \E j \in SubmitIds : RouteCancelTask(j)
    \/ \E j \in SubmitIds : RouteRetryTask(j)
    \/ \E j \in SubmitIds : RouteDeleteTask(j)

Spec == Init /\ [][Next]_vars

\* the same program with the API results observed
InitApi == InitState([s \in ServerIds |-> ServerRow(s = 1, TRUE)], NoRet)

SpecApi == InitApi /\ [][Next]_vars

\* submissions and scheduling over every registry of NumServers servers: each
\* server active or not, reachable or not; no job is cancelled, retried or deleted
NextAlloc ==
    \/ \E type \in InputTypes : CreateTask(type, NumJobs)
    \/ \E type \in InputTypes : \E hasBalance \in BOOLEAN : \E balance \in Balances :
           RouteCreateTask(type, NumJobs, hasBalance, balance)
    \/ \E u \in UnitIds : SchedStart(u)
    \/ \E u \in UnitIds : ExecStart(u)
    \/ \E u \in UnitIds : TimerFire(u)
    \/ \E u \in UnitIds : TimerRun(u)
    \/ \E u \in UnitIds : ExecWake(u)
    \/ \E u \in UnitIds : SchedFinish(u)

InitAlloc ==
    \E registry \in [ServerIds -> {ServerRow(a, r) : a \in BOOLEAN, r \in BOOLEAN}] :
        InitState(registry, RetOff)

SpecAlloc == InitAlloc /\ [][NextAlloc]_vars

\* TaskService on its own event loop, for the liveness claims: jobs are submitted
\* and cancelled through the service, and the loop runs every callback that is
\* ready and every timer that is due.  Nothing obliges a caller to call the API.
NextLive ==
    \/ \E type \in InputTypes : CreateTask(type, NumJobs)
    \/ LoopStep
    \/ \E j \in SubmitIds : CancelTask(j)

LoopFairness ==
    /\ WF_vars(\E u \in UnitIds : SchedStart(u))
    /\ WF_vars(\E u \in UnitIds : ExecStart(u))
    /\ WF_vars(\E u \in UnitIds : TimerFire(u))
    /\ WF_vars(\E u \in UnitIds : TimerRun(u))
    /\ WF_vars(\E u \in UnitIds : ExecWake(u))
    /\ WF_vars(\E u \in UnitIds : ExecCancelled(u))
    /\ WF_vars(\E u \in UnitIds : SchedFinish(u))

SpecLive == Init /\ [][NextLive]_vars /\ LoopFairness

\* TaskService over a store whose running write may raise
NextFault ==
    \/ NextLive
    \/ \E u \in UnitIds : SchedStartWriteFails(u)

SpecFault == Init /\ [][NextFault]_vars

\* a burst of submissions of one user, through the service and through the route,
\* and their scheduling, on two active servers of BurstGpuCount slots each
BurstType == "inference"

NextBurst ==
    \/ CreateTask(BurstType, MaxJobs)
    \/ \E hasBalance \in BOOLEAN : \E balance \in Balances :
           RouteCreateTask(BurstType, MaxJobs, hasBalance, balance)
    \/ \E u \in UnitIds : SchedStart(u)

InitBurst ==
    InitState([s \in ServerIds |->
                  [ServerRow(TRUE, TRUE) EXCEPT !.gpu_count = BurstGpuCount]], NoRet)

SpecBurst == InitBurst /\ [][NextBurst]_vars

\* ---- GPUService: probes and maintenance ---------------------------------------
HasRow(sv, s) == s \in ServerIds /\ sv[s].exists

BoolVal(b) == IF b THEN "true" ELSE "false"

\* _test_ssh_connection: True when the round trip answers 'test', False on any
\* exception of the connection (refused, timed out)
TestSshConnection(row) == row.reachable

\* update_data of ping_server
PingUpdate(row, ok) ==
    [row EXCEPT !.status = IF ok THEN "online" ELSE "offline", !.last_ping = TRUE]

\* what ping_server returns: False when the select finds no row
PingResult(sv, s) ==
    IF HasRow(sv, s) THEN TestSshConnection(sv[s]) ELSE FALSE

\* the table after ping_server(s)
PingRows(sv, s) ==
    IF HasRow(sv, s)
    THEN [sv EXCEPT ![s] = PingUpdate(sv[s], TestSshConnection(sv[s]))]
    ELSE sv

\* ping_server called by itself: the connection test blocks the loop, so the call
\* has no real suspension point
PingServer(s) ==
    /\ servers' = PingRows(servers, s)
    /\ ret' = Record([op |-> "ping", job |-> s, val |-> BoolVal(PingResult(servers, s))])
    /\ UNCHANGED <<tasks, running, units, ready, creq, late, maint, issued>>

\* the ping_server tasks asyncio.gather creates, one per row, in the order of the
\* rows
MonitorQueue(rows) == [i \in 1 .. Len(rows) |-> <<"P", rows[i]>>]

\* the ping_server tasks that are queued
PingTasks(q) == {i \in 1 .. Len(q) : q[i][1] = "P"}

\* monitor_all_servers up to `await asyncio.gather`: the active servers are read
\* and one ping_server task per row is queued.  Its resumption only logs.
\* MaxPingTasks bounds the queue.
MonitorAllServers ==
    /\ Cardinality(PingTasks(ready)) + Cardinality(ActiveServers) <= MaxPingTasks
    /\ \E order \in RowOrders : ready' = ready \o MonitorQueue(ActiveRows(order))
    /\ ret' = Record(NoRet)
    /\ UNCHANGED <<tasks, servers, running, units, creq, late, maint, issued>>

\* a ping_server task of monitor_all_servers runs; its result goes to gather
PingRun(s) ==
    /\ ready # <<>>
    /\ Head(ready) = <<"P", s>>
    /\ servers' = PingRows(servers, s)
    /\ ready' = Tail(ready)
    /\ ret' = Record([op |-> "ping", job |-> s, val |-> BoolVal(PingResult(servers, s))])
    /\ UNCHANGED <<tasks, running, units, creq, late, maint, issued>>

\* the calls of the store inside ping_server that may raise
StoreStages == {"select", "update"}

\* ping_server called by itself when the store raises, on the select or (the row
\* found and the connection tested) on the update: `except Exception` logs and
\* returns False, and nothing has been written
PingServerStoreRaises(s, stage) ==
    /\ stage = "update" => HasRow(servers, s)
    /\ ret' = Record([op |-> "ping", job |-> s, val |-> "false"])
    /\ UNCHANGED <<tasks, servers, running, units, ready, creq, late, maint, issued>>

\* a ping_server task of monitor_all_servers runs and the store raises: the task
\* ends with False and nothing has been written
PingRunStoreRaises(s, stage) ==
    /\ ready # <<>>
    /\ Head(ready) = <<"P", s>>
    /\ stage = "update" => HasRow(servers, s)
    /\ ready' = Tail(ready)
    /\ ret' = Record([op |-> "ping", job |-> s, val |-> "false"])
    /\ UNCHANGED <<tasks, servers, running, units, creq, late, maint, issued>>

\* mutant: the maintenance write also deactivates the server
MaintenanceUpdateDeactivates(row, st) ==
    IF row.exists
    THEN [row EXCEPT !.status = st, !.updated_at = TRUE, !.is_active = FALSE]
    ELSE row

\* the two updates of schedule_maintenance: status and updated_at
MaintenanceUpdate(row, st) ==
    IF row.exists THEN [row EXCEPT !.status = st, !.updated_at = TRUE] ELSE row

\* the id a sleeping schedule_maintenance holds: the row it was called for, or,
\* for an id that has never had a row, an id that no row will ever have (a row
\* registered later gets a new id)
MaintTarget(s) ==
    IF s \in ServerIds /\ servers[s] # NoServerRow THEN s ELSE NoSuchServer

\* schedule_maintenance up to `await asyncio.sleep(maintenance_window)`;
\* MaxSleepers bounds the calls that are asleep for one id
MaintStart(s) ==
    /\ maint[MaintTarget(s)] < MaxSleepers
    /\ servers' = IF HasRow(servers, s)
                  THEN [servers EXCEPT ![s] = MaintenanceUpdate(servers[s], "maintenance")]
                  ELSE servers
    /\ maint' = [maint EXCEPT ![MaintTarget(s)] = @ + 1]
    /\ ret' = Record(NoRet)
    /\ UNCHANGED <<tasks, running, units, ready, creq, late, issued>>

\* the window of one of the calls is over: the status is written online, on the
\* row of the id the call was given
MaintEnd(s) ==
    /\ maint[s] > 0
    /\ servers' = IF HasRow(servers, s)
                  THEN [servers EXCEPT ![s] = MaintenanceUpdate(servers[s], "online")]
                  ELSE servers
    /\ maint' = [maint EXCEPT ![s] = @ - 1]
    /\ ret' = Record(NoRet)
    /\ UNCHANGED <<tasks, running, units, ready, creq, late, issued>>

\* ---- gpu_routes: the administration of the servers --------------------------------
\* test_gpu_server_connection: connection_success is the constant True
ConnectionSuccess == TRUE

RouteTestReturn(sv, s) ==
    IF ~HasRow(sv, s) THEN "404" ELSE IF ConnectionSuccess THEN "ok" ELSE "503"

RouteTestConnection(s) ==
    /\ servers' = IF ~HasRow(servers, s) THEN servers
                  ELSE IF ConnectionSuccess
                  THEN [servers EXCEPT ![s].status = "online", ![s].last_ping = TRUE]
                  ELSE [servers EXCEPT ![s].status = "offline"]
    /\ ret' = Record([op |-> "route_test", job |-> s, val |-> RouteTestReturn(servers, s)])
    /\ UNCHANGED <<tasks, running, units, ready, creq, late, maint, issued>>

\* the value of an optional field of a request: the empty set stands for None
Given(field, old) == IF field = {} THEN old ELSE CHOOSE v \in field : TRUE

\* update_gpu_server: is_active and gpu_count are written when the request sets them
RouteUpdateServer(s, active, count) ==
    /\ HasRow(servers, s)
    /\ servers' = [servers EXCEPT
                      ![s].updated_at = TRUE,
                      ![s].is_active = Given(active, @),
                      ![s].gpu_count = Given(count, @)]
    /\ ret' = Record(NoRet)
    /\ UNCHANGED <<tasks, running, units, ready, creq, late, maint, issued>>

\* delete_gpu_server: refused while a job is running on the server
RouteDeleteServer(s) ==
    /\ HasRow(servers, s)
    /\ servers' = IF RunningOn(tasks, s) # {} THEN servers
                  ELSE [servers EXCEPT ![s] = DeletedServerRow]
    /\ ret' = Record(NoRet)
    /\ UNCHANGED <<tasks, running, units, ready, creq, late, maint, issued>>

\* create_gpu_server: a row under a new id, of a new name
RouteCreateServer(active, count, reach) ==
    /\ \E s \in ServerIds :
          /\ servers[s] = NoServerRow
          /\ \A t \in ServerIds : t < s => servers[t] # NoServerRow
          /\ servers' = [servers EXCEPT
                            ![s] = [ServerRow(active, reach) EXCEPT
                                       !.gpu_count = count, !.updated_at = TRUE]]
    /\ ret' = Record(NoRet)
    /\ UNCHANGED <<tasks, running, units, ready, creq, late, maint, issued>>

\* TaskService and GPUService on one event loop: one job is submitted, runs and
\* is cancelled while the registered server is probed, put into maintenance and
\* administered.  At the start server 1 is registered and active, reachable or
\* not, and server 2 has no row.
GpuJobs == 1
\* the requests of update_gpu_server: each field absent or set
ActiveInputs == {{}, {TRUE}, {FALSE}}
CountInputs == {{}, {GpuCount + 1}}
GpuType == "inference"

TaskStep ==
    \/ CreateTask(GpuType, GpuJobs)
    \/ LoopStep
    \/ \E j \in 1 .. GpuJobs : CancelTask(j)

ProbeStep ==
    \/ \E s \in PingTargets : PingServer(s)
    \/ MonitorAllServers
    \/ \E s \in ServerIds : PingRun(s)

MaintenanceStep ==
    \/ \E s \in PingTargets : MaintStart(s)
    \/ \E s \in PingTargets : MaintEnd(s)

AdminStep ==
    \/ \E s \in PingTargets : RouteTestConnection(s)
    \/ \E s \in ServerIds : \E active \in ActiveInputs : \E count \in CountInputs :
           RouteUpdateServer(s, active, count)
    \/ \E s \in ServerIds : RouteDeleteServer(s)

RegisterStep == \E active \in BOOLEAN : RouteCreateServer(active, GpuCount, TRUE)

NextGpu ==
    \/ TaskStep
    \/ ProbeStep
    \/ MaintenanceStep
    \/ AdminStep

InitGpu ==
    \E reach \in BOOLEAN :
        InitState([s \in ServerIds |->
                      IF s = 1 THEN ServerRow(TRUE, reach) ELSE NoServerRow], RetOff)

SpecGpu == InitGpu /\ [][NextGpu]_vars

\* GPUService and the routes of the servers with no job in the store: a second,
\* reachable server is registered, the monitoring passes probe the active servers
\* in the order the store returns them, and maintenances overlap.
NextProbe ==
    \/ ProbeStep
    \/ MaintenanceStep
    \/ AdminStep
    \/ RegisterStep

SpecProbe == InitGpu /\ [][NextProbe]_vars

\* GPUService alone, the value each probe returns observed, with a store that may
\* raise inside ping_server
PingFaultStep ==
    \/ \E s \in PingTargets : \E stage \in StoreStages : PingServerStoreRaises(s, stage)
    \/ \E s \in ServerIds : \E stage \in StoreStages : PingRunStoreRaises(s, stage)

NextPing ==
    \/ ProbeStep
    \/ PingFaultStep
    \/ MaintenanceStep
    \/ RegisterStep

InitPing ==
    \E reach \in BOOLEAN :
        InitState([s \in ServerIds |->
                      IF s = 1 THEN ServerRow(TRUE, reach) ELSE NoServerRow], NoRet)

SpecPing == InitPing /\ [][NextPing]_vars

(***************************************************************************)
(* The claims                                                              *)
(***************************************************************************)
\* the execution tasks of job j that can still run a step of the routine
LiveExec(j) ==
    {u \in UnitIds : /\ units[u].job = j
                     /\ units[u].epc \in {"ready", "sleep", "timer", "woken"}
                     /\ ~units[u].must_cancel}

\* a step writes the status of job j (the removal of the row is no such write)
StatusChanged(j) ==
    /\ tasks'[j].status # tasks[j].status
    /\ tasks'[j].status # "absent"

\* C1: no write moves a job's status out of a terminal state (completed, failed,
\* cancelled), except the retry operation: a step that changes the status of a
\* terminal job is a retry of that job.
C1_TerminalOnlyLeftByRetry ==
    [][\A j \in JobIds :
          tasks[j].status \in Terminal /\ StatusChanged(j) => RouteRetryTask(j)]_vars

\* C2: every change of a job's status is one of the transitions of the state
\* machine: pending->running, pending->cancelled, running->completed,
\* running->failed, running->cancelled, failed->pending, cancelled->pending
\* (and the creation of the row, absent->pending).
AllowedTransitions ==
    {<<"absent", "pending">>,
     <<"pending", "running">>, <<"pending", "cancelled">>,
     <<"running", "completed">>, <<"running", "failed">>, <<"running", "cancelled">>,
     <<"failed", "pending">>, <<"cancelled", "pending">>}

C2_OnlyStateMachineTransitions ==
    [][\A j \in JobIds :
          StatusChanged(j) =>
              <<tasks[j].status, tasks'[j].status>> \in AllowedTransitions]_vars

\* C3: at any time a job id has at most one entry in the active set and at most
\* one execution task able to run.  No entry point schedules a job id a second
\* time, so the refusal of a second scheduling is exercised by no behaviour.
C3_OneExecutionPerJob ==
    \A j \in JobIds :
        /\ Cardinality({i \in 1 .. Len(running) : running[i].job = j}) <= 1
        /\ Cardinality(LiveExec(j)) <= 1

\* C4: a job whose cancellation was requested while it was Running (and that was
\* not retried since) has status cancelled: never failed, nor anything else.
C4_CancelledRunningStaysCancelled ==
    \A j \in creq : tasks[j].status = "cancelled"
\* C5 (as claimed): cancel_task returns true if and only if an entry of the active
\* set exists for the job at the time of the call.
C5_CancelTrueIffHandle ==
    [][\A j \in JobIds :
          CancelTask(j) => (ret'.val = "true" <=> InRunning(running, j))]_vars

\* C5 (amended): cancel_task returns true if and only if the job exists and its
\* status at the time of the call is pending or running, with or without an entry
\* of the active set; the job is then written cancelled.
C5_CancelTrueIffNotTerminal ==
    [][\A j \in JobIds :
          CancelTask(j) =>
              /\ ret'.val = "true" <=> tasks[j].status \in {"pending", "running"}
              /\ ret'.val = "true" => tasks'[j].status = "cancelled"]_vars

\* cancel_task returned true for a job that was pending with no entry in the
\* active set: it never ran
C5_Witness ==
    /\ ret.op = "cancel" /\ ret.val = "true"
    /\ tasks[ret.job].status = "cancelled"
    /\ ~tasks[ret.job].started_at
    /\ \A u \in UnitIds : units[u].job # ret.job

\* C6: cancelling a Pending job that has no entry in the active set is synchronous:
\* the step of cancel itself writes status cancelled, and no execution task, queue
\* entry or entry of the active set is touched.
C6_CancelPendingIsSynchronous ==
    [][\A j \in JobIds :
          /\ CancelTask(j) \/ RouteCancelTask(j)
          /\ tasks[j].status = "pending"
          /\ ~InRunning(running, j)
          => /\ tasks'[j].status = "cancelled"
             /\ ret'.val \in {"true", "ok"}
             /\ UNCHANGED <<running, units, ready>>]_vars

\* cancel_task has returned for a Pending job while the job's scheduling
\* coroutine is still waiting for its first step: the status is already cancelled
C6_Witness ==
    /\ ret.op = "cancel" /\ ret.val = "true"
    /\ tasks[ret.job].status = "cancelled"
    /\ ~tasks[ret.job].started_at
    /\ \E u \in UnitIds : units[u].job = ret.job /\ units[u].spc = "ready"

\* C7: cancel on a job that is completed, failed or cancelled is refused (false
\* from the service, HTTP 400 from the route) and changes neither the job's row
\* nor the active set (nor any execution task).
C7_CancelTerminalIsNoOp ==
    [][\A j \in JobIds :
          /\ CancelTask(j) \/ RouteCancelTask(j)
          /\ tasks[j].status \in Terminal
          => /\ ret'.val \in {"false", "400"}
             /\ UNCHANGED <<tasks, running, units, ready>>]_vars

\* cancel_task returned false for a terminal job whose entry is still in the
\* active set (the execution ended, _schedule_task has not resumed yet)
C7_Witness ==
    /\ ret.op = "cancel" /\ ret.val = "false"
    /\ tasks[ret.job].status \in Terminal
    /\ InRunning(running, ret.job)

\* C8: an accepted retry leaves the job Pending with every lifecycle field reset:
\* progress 0, no error, no result, no assigned server, no started_at, no
\* completed_at.
C8_RetryResetsEveryField ==
    [][\A j \in JobIds :
          RouteRetryTask(j) /\ tasks[j].status \in {"failed", "cancelled"}
          => tasks'[j] = NewRow(tasks[j].task_type)]_vars

\* C9: retry is accepted exactly for a failed or cancelled job; for a pending,
\* running or completed job it is refused and changes nothing, so no retry moves a
\* completed job.
C9_RetryOnlyFailedOrCancelled ==
    [][\A j \in JobIds :
          RouteRetryTask(j) =>
              IF tasks[j].status \in {"failed", "cancelled"}
              THEN ret'.val = "ok" /\ tasks'[j].status = "pending"
              ELSE /\ ret'.val \in {"400", "404"}
                   /\ UNCHANGED <<tasks, running, units, ready>>]_vars

\* retry was refused for a completed job, which is still completed
C9_Witness ==
    /\ ret.op = "retry" /\ ret.val = "400"
    /\ tasks[ret.job].status = "completed"

\* C10: a job's assigned server is set if and only if its status is running,
\* completed or failed; it is empty for a pending or a cancelled job.
C10_ServerSetIffRunningCompletedFailed ==
    \A j \in JobIds :
        tasks[j].status # "absent" =>
            (tasks[j].gpu_server_id # 0
                <=> tasks[j].status \in {"running", "completed", "failed"})

\* C11: in every reachable state a completed job has progress exactly 100.
C11_CompletedHasFullProgress ==
    \A j \in JobIds :
        tasks[j].status = "completed" => tasks[j].progress = FullProgress

\* a training job has run all its steps and is completed
C11_Witness ==
    \E j \in JobIds :
        /\ tasks[j].status = "completed"
        /\ tasks[j].task_type = "training"
        /\ tasks[j].completed_at
        /\ tasks[j].progress = FullProgress

\* C12: in every reachable state a running job has an assigned server.
C12_RunningHasServer ==
    \A j \in JobIds :
        tasks[j].status = "running" => tasks[j].gpu_server_id # 0

\* a job is running on a server and its execution has written progress
C12_Witness ==
    \E j \in JobIds :
        /\ tasks[j].status = "running"
        /\ tasks[j].gpu_server_id \in ServerIds
        /\ tasks[j].progress > 0

\* C13: a job in a terminal status has exactly one of result and error_message
\* populated; a pending or running job has both empty.
C13_ResultXorErrorWhenTerminal ==
    \A j \in JobIds :
        /\ tasks[j].status \in Terminal =>
               ((tasks[j].result # "") # (tasks[j].error_message # ""))
        /\ tasks[j].status \in {"pending", "running"} =>
               (tasks[j].result = "" /\ tasks[j].error_message = "")

\* C14: while a job is running its stored progress never decreases: a step taken
\* from a state where the job is running stores a progress at least as large.
C14_ProgressMonotoneWhileRunning ==
    [][\A j \in JobIds :
          tasks[j].status = "running" =>
              tasks'[j].progress >= tasks[j].progress]_vars

\* a running training job has written the progress of its second step over that
\* of its first
C14_Witness ==
    \E j \in JobIds :
        /\ tasks[j].status = "running"
        /\ tasks[j].task_type = "training"
        /\ tasks[j].progress = ProgressAfter(1, TrainingSteps)
        /\ tasks[j].progress > ProgressAfter(0, TrainingSteps)

\* selectWorker as specified: the first server, in registration order, that is
\* active, under capacity and reachable; 0 for none
SelectWorkerAsSpecified(ts) ==
    LET ok == {s \in ServerIds : /\ servers[s].is_active
                                 /\ Cardinality(RunningOn(ts, s)) < servers[s].gpu_count
                                 /\ servers[s].reachable}
    IN IF ok = {} THEN 0 ELSE CHOOSE s \in ok : \A t \in ok : s <= t

\* C15: the allocation of a scheduling attempt selects the first server, in
\* registration order, that is active, under capacity and reachable: the job is
\* written running on exactly that server, and on none if there is no such server.
C15_SelectsFirstAvailableReachable ==
    [][\A u \in UnitIds :
          SchedStart(u) =>
              LET j == units[u].job
                  w == SelectWorkerAsSpecified(tasks)
              IN IF w = 0
                 THEN tasks' = tasks
                 ELSE tasks'[j].status = "running" /\ tasks'[j].gpu_server_id = w]_vars

\* C16: a scheduling attempt for a pending job made when no active server is both
\* under capacity and reachable leaves the job pending, with no entry in the active
\* set, no server assigned by the attempt and no error recorded.
C16_NoWorkerLeavesPending ==
    [][\A u \in UnitIds :
          /\ SchedStart(u)
          /\ tasks[units[u].job].status = "pending"
          /\ SelectWorkerAsSpecified(tasks) = 0
          => LET j == units[u].job
             IN /\ tasks'[j].status = "pending"
                /\ tasks'[j].gpu_server_id = tasks[j].gpu_server_id
                /\ tasks'[j].error_message = ""
                /\ ~InRunning(running', j)]_vars

\* find_available_server returns a server (whatever the order of the rows)
SomeServerAvailable == \E order \in RowOrders : FindAvailableServer(tasks, order) # 0

\* the scheduling attempts that have not made their allocation yet
AttemptsInFlight == {u \in UnitIds : units[u].spc = "ready"}

\* C17: the number of running jobs on a server exceeds its gpu_count by at most
\* N - 1, N the number of allocation attempts in flight (by nothing when at most
\* one attempt is in flight).
C17_OverSubscriptionBounded ==
    \A s \in ServerIds :
        Cardinality(RunningOn(tasks, s)) <=
            servers[s].gpu_count
              + (IF Cardinality(AttemptsInFlight) > 1
                 THEN Cardinality(AttemptsInFlight) - 1 ELSE 0)

\* a server is at capacity while the scheduling attempt of another, pending job is
\* in flight
C17_Witness ==
    \E s \in ServerIds : \E u \in AttemptsInFlight :
        /\ Cardinality(RunningOn(tasks, s)) = servers[s].gpu_count
        /\ servers[s].is_active
        /\ tasks[units[u].job].status = "pending"
        /\ units[u].job \notin RunningOn(tasks, s)

\* C18: the step that creates a job's execution task has written the job running,
\* with its server and started_at; and no step of an execution routine runs while
\* the job's stored status is pending.
C18_RunningWrittenBeforeExecution ==
    [][\A u \in UnitIds :
          /\ (units[u].epc = "none" /\ units'[u].epc = "ready") =>
                 /\ tasks'[units'[u].job].status = "running"
                 /\ tasks'[units'[u].job].gpu_server_id # 0
                 /\ tasks'[units'[u].job].started_at
          /\ ((ExecStart(u) /\ ~units[u].must_cancel) \/ ExecWake(u)) =>
                 tasks[units[u].job].status # "pending"]_vars

\* C19: a job is stored as running only while an execution task of it has not
\* ended, and every entry of the active set belongs to a scheduling coroutine that
\* has not finished: an ended execution leaves a terminal status and no entry.
C19_EndedExecutionLeavesTerminalStatus ==
    /\ \A j \in JobIds :
           tasks[j].status = "running" =>
               \E u \in UnitIds : /\ units[u].job = j
                                  /\ units[u].epc \in {"ready", "sleep", "timer", "woken", "cancelling"}
    /\ \A i \in 1 .. Len(running) :
           /\ units[running[i].unit].job = running[i].job
           /\ units[running[i].unit].spc # "none"

\* C20: when stop_all_tasks returns, the active set is empty and every execution
\* task has ended: none is waiting for a step, sleeping, or still to unwind, and no
\* scheduling coroutine is left that could start one.
C20_ShutdownWaitsForUnwind ==
    [][StopAllTasks =>
          /\ running' = <<>>
          /\ \A u \in UnitIds : /\ units'[u].epc \in {"none", "done"}
                                /\ units'[u].spc # "ready"]_vars

\* C21: at no time does the user have more than MaxConcurrentPerUser (5) jobs in
\* status running.
C21_RunningJobsWithinUserLimit ==
    Cardinality({j \in JobIds : tasks[j].status = "running"}) <= MaxConcurrentPerUser

\* C26: after the cancellation of a running job is requested, at most one more
\* step of its execution completes: at most one more progress write is made for it.
C26_CancelObservedWithinOneStep ==
    \A j \in JobIds : late[j] <= 1

\* C22: a job that is pending with no scheduling attempt of its own left, while a
\* server has a free slot, is eventually scheduled (or cancelled): it does not stay
\* pending forever.
C22_PendingEventuallyScheduled ==
    \A j \in JobIds :
        (/\ tasks[j].status = "pending"
         /\ \A u \in UnitIds : units[u].job # j
         /\ SomeServerAvailable)
        ~> (tasks[j].status # "pending")

\* C27: a job of a known type whose scheduling attempt is the next callback of the
\* loop while a server is free eventually is completed with progress 100 on an
\* active server, unless it is cancelled; and as long as it is not cancelled its
\* status only moves pending -> running -> completed.
C27_FreeWorkerJobCompletes ==
    /\ \A j \in JobIds :
           (/\ tasks[j].status = "pending"
            /\ tasks[j].task_type \in KnownTypes
            /\ ready # <<>>
            /\ Head(ready)[1] = "S"
            /\ units[Head(ready)[2]].job = j
            /\ units[Head(ready)[2]].spc = "ready"
            /\ SomeServerAvailable)
           ~> (\/ /\ tasks[j].status = "completed"
                  /\ tasks[j].progress = FullProgress
                  /\ tasks[j].gpu_server_id \in {s \in ServerIds : servers[s].is_active}
               \/ tasks[j].status = "cancelled")
    /\ [][\A j \in JobIds :
             /\ StatusChanged(j)
             /\ tasks[j].task_type \in KnownTypes
             /\ tasks[j].status # "cancelled"
             /\ tasks'[j].status # "cancelled"
             => <<tasks[j].status, tasks'[j].status>> \in
                    {<<"pending", "running">>, <<"running", "completed">>}]_vars

\* a job that was never cancelled while running is completed with progress 100
\* on the one active server
C27_Witness ==
    \E j \in JobIds :
        /\ tasks[j].status = "completed"
        /\ tasks[j].progress = FullProgress
        /\ tasks[j].gpu_server_id = 1
        /\ tasks[j].started_at /\ tasks[j].completed_at
        /\ j \notin creq

\* the execution task of u enters _execute_task with a job of an unknown type
RaisesUnknownType(u) ==
    /\ ExecStart(u)
    /\ ~units[u].must_cancel
    /\ units[u].task_type \notin KnownTypes
    /\ tasks[units[u].job].status # "absent"

\* C23: the execution of a job of an unknown type writes the job failed with a
\* non-empty error message and runs no step; the job is failed when its scheduling
\* coroutine ends; its progress is 0 at all times (no progress write).
C23_UnknownTypeFailsWithoutSteps ==
    [][/\ \A u \in UnitIds :
            RaisesUnknownType(u) =>
                /\ tasks'[units[u].job].status = "failed"
                /\ tasks'[units[u].job].error_message # ""
                /\ units'[u].epc = "done"
       /\ \A u \in UnitIds :
            (/\ SchedFinish(u) /\ units[u].outcome = "exc"
             /\ tasks[units[u].job].status # "absent") =>
                /\ tasks'[units[u].job].status = "failed"
                /\ tasks'[units[u].job].error_message # ""
       /\ \A j \in JobIds :
            tasks'[j].task_type \notin KnownTypes => tasks'[j].progress = 0]_vars

\* a job of an unknown type has ended: failed, with its message, progress 0
C23_Witness ==
    \E j \in JobIds :
        /\ tasks[j].task_type = "other"
        /\ tasks[j].status = "failed"
        /\ tasks[j].error_message = UnsupportedMsg
        /\ tasks[j].progress = 0
        /\ \A u \in UnitIds : units[u].job # j

\* C24: a job of an unknown type is never stored as running and never has a server
\* assigned: it never counts in the occupancy of a server.
C24_UnknownTypeNeverOccupies ==
    \A j \in JobIds :
        (tasks[j].status # "absent" /\ tasks[j].task_type \notin KnownTypes) =>
            /\ tasks[j].status # "running"
            /\ tasks[j].gpu_server_id = 0

\* C25: the cancellation of a running job after some but not all of its steps
\* leaves the job cancelled with no error and progress below 100, and the job is
\* still so after the next step of the program (a retry excepted).
C25_CancelledMidRunEndsCancelled ==
    [][\A j \in JobIds :
          /\ (/\ CancelTask(j) \/ RouteCancelTask(j)
              /\ tasks[j].status = "running"
              /\ tasks[j].progress > 0 /\ tasks[j].progress < FullProgress)
             => /\ tasks'[j].status = "cancelled"
                /\ tasks'[j].error_message = ""
                /\ tasks'[j].progress < FullProgress
          /\ (/\ j \in creq /\ late[j] = 0
              /\ tasks[j].status = "cancelled"
              /\ tasks[j].progress > 0 /\ tasks[j].progress < FullProgress
              /\ ~RouteRetryTask(j))
             => /\ tasks'[j].status = "cancelled"
                /\ tasks'[j].error_message = ""
                /\ tasks'[j].progress < FullProgress]_vars

\* C28: when the execution of a job raises, the job is written failed with the
\* message of the exception, by _execute_task and again by _schedule_task, which
\* ends normally; no other job's row, entry of the active set or coroutine changes.
C28_FailureIsIsolated ==
    [][\A u \in UnitIds :
          (\/ RaisesUnknownType(u)
           \/ /\ SchedFinish(u) /\ units[u].outcome = "exc"
              /\ tasks[units[u].job].status # "absent") =>
              LET j == units[u].job
              IN /\ tasks'[j].status = "failed"
                 /\ tasks'[j].error_message = UnsupportedMsg
                 /\ \A k \in JobIds \ {j} : tasks'[k] = tasks[k]
                 /\ SelectSeq(running', LAMBDA e : e.job # j)
                        = SelectSeq(running, LAMBDA e : e.job # j)
                 /\ \A v \in UnitIds \ {u} : units'[v] = units[v]
                 /\ SchedFinish(u) => units'[u] = NoUnit]_vars

\* the execution of one job has raised and its scheduling coroutine is about to
\* resume, while another job is running with its entry in the active set
C28_Witness ==
    \E u \in UnitIds : \E k \in JobIds :
        /\ units[u].outcome = "exc" /\ units[u].spc = "wake"
        /\ tasks[units[u].job].status = "failed"
        /\ k # units[u].job
        /\ tasks[k].status = "running"
        /\ InRunning(running, k)

\* C29: the writes of a job are ordered: the running write is made on a pending
\* job, and every progress write is made while the job is running, never before
\* the running write and never after a terminal write.
C29_WritesAreOrdered ==
    [][\A u \in UnitIds :
          /\ (SchedStart(u) /\ SomeServerAvailable) =>
                 tasks[units[u].job].status = "pending"
          /\ ExecWake(u) => tasks[units[u].job].status = "running"]_vars

\* C30: every job with an entry in the active set is stored as running.
C30_HandleOnlyWhileRunning ==
    \A i \in 1 .. Len(running) : tasks[running[i].job].status = "running"

\* C31: create_task returns before any scheduling step of the job has run: after
\* its step the new job is pending with no server and no entry in the active set,
\* and its scheduling coroutine is queued, not started.
C31_SubmitReturnsBeforeScheduling ==
    [][\A type \in InputTypes :
          CreateTask(type, NumJobs) =>
              \E j \in JobIds :
                  /\ tasks[j].status = "absent"
                  /\ tasks'[j] = NewRow(type)
                  /\ tasks'[j].gpu_server_id = 0
                  /\ ~InRunning(running', j)
                  /\ running' = running
                  /\ \E u \in UnitIds :
                        /\ units[u] = NoUnit
                        /\ units'[u].job = j
                        /\ units'[u].spc = "ready"
                        /\ units'[u].epc = "none"
                        /\ ready' = Append(ready, <<"S", u>>)]_vars

\* create_task has returned: the job is pending, its scheduling coroutine is in the
\* queue of the loop behind another callback
C31_Witness ==
    \E u \in UnitIds :
        /\ units[u].spc = "ready"
        /\ tasks[units[u].job].status = "pending"
        /\ ~tasks[units[u].job].started_at
        /\ ~InRunning(running, units[u].job)
        /\ Len(ready) >= 2
        /\ ready[Len(ready)] = <<"S", u>>

C33_FailedWriteIdempotent ==
    [][\A u \in UnitIds :
          (/\ SchedFinish(u) /\ units[u].outcome = "exc"
           /\ tasks[units[u].job].status = "failed")
          => /\ tasks'[units[u].job].status = tasks[units[u].job].status
             /\ tasks'[units[u].job].error_message = tasks[units[u].job].error_message
             /\ tasks'[units[u].job].error_message = UnsupportedMsg]_vars

\* both failed writes of a job are done and its entry is removed
C33_Witness ==
    \E j \in JobIds :
        /\ tasks[j].status = "failed"
        /\ tasks[j].error_message = UnsupportedMsg
        /\ tasks[j].completed_at
        /\ tasks[j].gpu_server_id # 0
        /\ ~InRunning(running, j)
        /\ \A u \in UnitIds : units[u].job # j

\* C36: every job stored as running has an entry in the active set.
C36_RunningHasHandle ==
    \A j \in JobIds : tasks[j].status = "running" => InRunning(running, j)

\* C37: the running jobs of a server never exceed its gpu_count.
C37_OccupancyWithinSlots ==
    \A s \in ServerIds : Cardinality(RunningOn(tasks, s)) <= servers[s].gpu_count

\* a server is full and a pending job's scheduling attempt has been refused
C37_Witness ==
    \E s \in ServerIds : \E j \in JobIds :
        /\ Cardinality(RunningOn(tasks, s)) = servers[s].gpu_count
        /\ servers[s].gpu_count > 0
        /\ tasks[j].status = "pending"
        /\ \A u \in UnitIds : units[u].job # j

\* C40: when the running write of a scheduling attempt fails, the attempt creates
\* no execution task and no entry in the active set; no step of an execution runs
\* while the job's row says pending with no server.
C40_NoExecutionWithoutRunningWrite ==
    [][\A u \in UnitIds :
          /\ SchedStartWriteFails(u) =>
                 /\ units'[u].epc = "none"
                 /\ ~InRunning(running', units[u].job)
          /\ ((ExecStart(u) /\ ~units[u].must_cancel) \/ ExecWake(u)) =>
                 ~(/\ tasks[units[u].job].status = "pending"
                   /\ tasks[units[u].job].gpu_server_id = 0)]_vars

\* the fields of a server row other than those named are as before the step
SameExcept(s, fields) ==
    \A f \in DOMAIN servers[s] : f \notin fields => servers'[s][f] = servers[s][f]

\* C34: scheduling, executing, cancelling and completing jobs never change a row
\* of a server, and the services write no field of a server but its status and
\* its last-probed timestamp (the statement of the claim: schedule_maintenance
\* also writes updated_at).
C34_OnlyStatusAndLastPing ==
    [][/\ TaskStep => servers' = servers
       /\ (ProbeStep \/ MaintenanceStep) =>
              \A s \in ServerIds : SameExcept(s, {"status", "last_ping"})]_vars

\* C34 (amended): scheduling, executing, cancelling and completing jobs never
\* change a row of a server; the probes and the maintenance scheduler of
\* GPUService write only status, last_ping and updated_at, never the slot count
\* or the active flag.
C34_WorkerFrame ==
    [][/\ TaskStep => servers' = servers
       /\ (ProbeStep \/ MaintenanceStep) =>
              \A s \in ServerIds :
                  SameExcept(s, {"status", "last_ping", "updated_at"})]_vars

\* a job has completed on an active server that has been probed and has been
\* through a maintenance write
C34_Witness ==
    \E j \in JobIds :
        /\ tasks[j].status = "completed"
        /\ tasks[j].gpu_server_id \in ServerIds
        /\ servers[tasks[j].gpu_server_id].last_ping
        /\ servers[tasks[j].gpu_server_id].updated_at

\* C35: a probe never raises, it returns a value: false when the server cannot
\* be reached or has no row; after the probe of an existing server its stored
\* status is online if the probe returned true and offline if it returned false.
C35_ProbeResultAndStatus ==
    [][\A s \in PingTargets :
          (\/ PingServer(s)
           \/ (s \in ServerIds /\ PingRun(s))
           \/ \E stage \in StoreStages : PingServerStoreRaises(s, stage)
           \/ \E stage \in StoreStages : (s \in ServerIds /\ PingRunStoreRaises(s, stage))) =>
              /\ ret'.op = "ping"
              /\ ret'.val \in {"true", "false"}
              /\ (~HasRow(servers, s) \/ ~servers[s].reachable) => ret'.val = "false"
              /\ HasRow(servers, s) =>
                    servers'[s].status =
                        (IF ret'.val = "true" THEN "online" ELSE "offline")]_vars

\* C38: the allocator never assigns a job to a server whose stored status is
\* maintenance or offline: the running write of a job names a server whose
\* status is neither.
C38_NoJobOnUnavailableServer ==
    [][\A j \in JobIds :
          (StatusChanged(j) /\ tasks'[j].status = "running") =>
              /\ tasks'[j].gpu_server_id \in ServerIds
              /\ servers[tasks'[j].gpu_server_id].status \notin {"maintenance", "offline"}]_vars

\* C39: from the start of schedule_maintenance for a server until its window
\* ends the stored status stays maintenance, whatever probes run meanwhile; and a
\* server whose status is offline when the window ends is not written online.
C39_MaintenanceHolds ==
    [][(ProbeStep \/ MaintenanceStep) =>
          \A s \in ServerIds :
              /\ (maint'[s] > 0 /\ servers'[s].exists) =>
                     servers'[s].status = "maintenance"
              /\ (MaintEnd(s) /\ servers[s].status = "offline") =>
                     servers'[s].status # "online"]_vars

====
